---- MODULE Spec2Model ----
(***************************************************************************)
(* Adaptive content-generation pipeline of EnglishAI:                      *)
(*   - generateLesson (contentGenerator.ts and its older variant),         *)
(*   - the two batch policies generateLessonSequence (strict) and          *)
(*     generateAdaptiveLessons (best effort),                              *)
(*   - the persisted performance log (performanceTracker.ts).              *)
(***************************************************************************)
EXTENDS Integers, Sequences, FiniteSets, TLC

\* ------------------------------------------------------------------------
\* Bounds of the model
\* ------------------------------------------------------------------------
MaxTextLen == 4
MaxCount == 3
MaxStartIndex == 2
MaxResults == 102
MaxSharedResults == 3
MaxStoreResults == 3
MaxQuestions == 2
MaxSkillLog == 2

\* ------------------------------------------------------------------------
\* Program constants
\* ------------------------------------------------------------------------
MaxLogEntries == 100
StrictDelayMs == 1000
BestEffortDelayMs == 500
GenericError == "Failed to generate lesson content"
InvalidFormatError == "Invalid response format from AI"

Levels == {"beginner", "intermediate", "advanced"}
Skills == {"reading", "grammar"}

VARIABLES
    \* one generateLesson call
    genPc, genVariant, genSkill, genLevel, genNumber, genResponse,
    genFetches, genResult,
    \* one batch call (generateLessonSequence / generateAdaptiveLessons)
    seqPc, mode, skill, level, startIndex, count, oracle, i, lessons,
    inflight, trace, now, seqResult,
    \* the persisted performance log and the contexts that use it
    storage, ctxPc, existing, pending, nextId, appended, readResult,
    \* the first of two batch calls made with the same arguments
    runs, prev,
    \* calculateUserPerformance: the summaries computed so far, per filter
    perfOut,
    \* the difficulty adapter: its argument, the trend label and the
    \* instruction each variant returned
    performance, trend, adjustment,
    \* getNextLessonNumber: the user's completed ids per skill and the call
    \* made on them
    user, nextNumber,
    \* the LessonList component: its props, its state and the sequence calls
    \* it has issued that have not settled
    listSkill, listLevel, listLessons, loading, error, generatingLesson,
    pendingCalls, callCount

genVars == <<genPc, genVariant, genSkill, genLevel, genNumber, genResponse,
             genFetches, genResult>>
seqVars == <<seqPc, mode, skill, level, startIndex, count, oracle, i, lessons,
             inflight, trace, now, seqResult>>
storeVars == <<storage, ctxPc, existing, pending, nextId, appended, readResult>>
pairVars == <<runs, prev>>
perfVars == <<perfOut>>
adaptVars == <<performance, trend, adjustment>>
nextVars == <<user, nextNumber>>
listVars == <<listSkill, listLevel, listLessons, loading, error,
              generatingLesson, pendingCalls, callCount>>
fnVars == <<adaptVars, nextVars, listVars>>
auxVars == <<pairVars, perfVars, fnVars>>
vars == <<genVars, seqVars, storeVars, auxVars>>

\* ------------------------------------------------------------------------
\* Response texts.  A text is a sequence of tokens:
\*   "{" "}"  braces,
\*   "q"      one entry of the object's questions array,
\*   "k"      the key of a member whose value is a nested object,
\*   "x"      any other character (prose).
\* ------------------------------------------------------------------------
Chars == {"{", "}", "q", "k", "x"}
Texts == UNION {[1..n -> Chars] : n \in 0..MaxTextLen}

Positions(t, c) == {p \in 1..Len(t) : t[p] = c}
Min(S) == CHOOSE m \in S : \A o \in S : m <= o
Max(S) == CHOOSE m \in S : \A o \in S : m >= o

NoMatch == [found |-> FALSE, str |-> <<>>]

\* responseText.match(/\{[\s\S]*\}/): leftmost "{", then greedily up to the
\* last "}" of the text.
RegexMatch(t) ==
    IF Positions(t, "{") = {} THEN NoMatch
    ELSE LET first == Min(Positions(t, "{"))
             closes == {p \in Positions(t, "}") : p > first}
         IN IF closes = {} THEN NoMatch
            ELSE [found |-> TRUE, str |-> SubSeq(t, first, Max(closes))]

ParseFail == [ok |-> FALSE, next |-> 0, value |-> <<>>]

RECURSIVE ParseObject(_, _)
RECURSIVE ParseMembers(_, _, _)
\* JSON object grammar over the tokens: Obj ::= "{" Member* "}",
\* Member ::= "q" | "k" Obj.  The value of an object is the sequence of its
\* members.
ParseObject(s, p) ==
    IF p > Len(s) \/ s[p] # "{" THEN ParseFail
    ELSE ParseMembers(s, p + 1, <<>>)

ParseMembers(s, p, acc) ==
    IF p > Len(s) THEN ParseFail
    ELSE IF s[p] = "}" THEN [ok |-> TRUE, next |-> p + 1, value |-> acc]
    ELSE IF s[p] = "q"
         THEN ParseMembers(s, p + 1, Append(acc, [key |-> "q", val |-> <<>>]))
    ELSE IF s[p] = "k"
         THEN LET c == ParseObject(s, p + 1)
              IN IF c.ok
                 THEN ParseMembers(s, c.next,
                                   Append(acc, [key |-> "k", val |-> c.value]))
                 ELSE ParseFail
    ELSE ParseFail

\* JSON.parse(str): the whole string must be one object.
JsonParse(s) ==
    LET r == ParseObject(s, 1)
    IN IF r.ok /\ r.next = Len(s) + 1
       THEN [ok |-> TRUE, value |-> r.value]
       ELSE [ok |-> FALSE, value |-> <<>>]

\* lessonData.questions?.length || 0
QuestionCount(value) == Len(SelectSeq(value, LAMBDA m : m.key = "q"))

BasePoints(lv) ==
    IF lv = "beginner" THEN 10
    ELSE IF lv = "intermediate" THEN 15
    ELSE IF lv = "advanced" THEN 20
    ELSE 10

calculateLessonPoints(lv, questionCount) == BasePoints(lv) * questionCount

\* ------------------------------------------------------------------------
\* What the network gives back to one fetch.
\*   net    "ok" | "error"   (fetch rejects on "error")
\*   status HTTP status of the response
\*   body   "notJson"        response.json() rejects
\*          "noCandidates"   JSON without candidates[0].content.parts[0].text
\*          "text"           JSON carrying a candidate text
\*   text   the candidate text
\* ------------------------------------------------------------------------
Statuses == {200, 500}

NetworkError == [net |-> "error", status |-> 0, body |-> "notJson", text |-> <<>>]
Responses ==
    {NetworkError}
    \cup [net : {"ok"}, status : Statuses, body : {"notJson", "noCandidates"},
          text : {<<>>}]
    \cup [net : {"ok"}, status : Statuses, body : {"text"}, text : Texts]

\* The error thrown inside the try block of generateLesson, "none" when the
\* block runs to its return statement.
InnerError(resp) ==
    IF resp.net = "error" THEN "TypeError: fetch failed"
    ELSE IF resp.body = "notJson" THEN "SyntaxError: response.json"
    ELSE IF resp.body = "noCandidates" THEN "TypeError: candidates"
    ELSE IF ~RegexMatch(resp.text).found THEN InvalidFormatError
    ELSE IF ~JsonParse(RegexMatch(resp.text).str).ok THEN "SyntaxError: JSON.parse"
    ELSE "none"

\* id: `${skill}-${level}-${lessonNumber}` (older variant) or
\*     `${skill}-${level}-${lessonNumber}-${Date.now()}` (contentGenerator.ts);
\* stamp 0 stands for "no timestamp suffix".
LessonId(variant, sk, lv, n, t) ==
    [skill |-> sk, level |-> lv, lessonNumber |-> n,
     stamp |-> IF variant = "contentGenerator" THEN t ELSE 0]

\* A catch block that rethrows what it caught.
CaughtErrorRethrown(inner) == inner

\* The error generateLesson's catch block throws.
CaughtError(inner) == GenericError

\* Outcome of generateLesson for a given response of the network.
generateLesson(variant, sk, lv, n, resp, t) ==
    IF InnerError(resp) # "none"
    THEN [ok |-> FALSE, error |-> CaughtError(InnerError(resp)),
          lesson |-> <<>>]
    ELSE LET lessonData == JsonParse(RegexMatch(resp.text).str).value
         IN [ok |-> TRUE, error |-> "none",
             lesson |-> <<[data |-> lessonData,
                           id |-> LessonId(variant, sk, lv, n, t),
                           points |-> calculateLessonPoints(lv,
                                          QuestionCount(lessonData))]>>]

\* ------------------------------------------------------------------------
\* One generateLesson call, step by step.
\* ------------------------------------------------------------------------
Variants == {"contentGenerator", "part_000"}
Times == 1..2
NoResult == [ok |-> FALSE, error |-> "none", lesson |-> <<>>]

InitGen ==
    /\ genPc = "idle"
    /\ genVariant = "contentGenerator"
    /\ genSkill = "reading"
    /\ genLevel = "beginner"
    /\ genNumber = 1
    /\ genResponse = NetworkError
    /\ genFetches = 0
    /\ genResult = NoResult

\* The caller invokes generateLesson(skill, level, lessonNumber, ...).
GenCall(variant, sk, lv, n) ==
    /\ genPc = "idle"
    /\ genPc' = "start"
    /\ genVariant' = variant
    /\ genSkill' = sk
    /\ genLevel' = lv
    /\ genNumber' = n
    /\ UNCHANGED <<genResponse, genFetches, genResult>>
    /\ UNCHANGED <<seqVars, storeVars, auxVars>>

\* await fetch(...): the request goes out.
GenFetch ==
    /\ genPc = "start"
    /\ genPc' = "fetching"
    /\ genFetches' = genFetches + 1
    /\ UNCHANGED <<genVariant, genSkill, genLevel, genNumber, genResponse,
                   genResult>>
    /\ UNCHANGED <<seqVars, storeVars, auxVars>>

\* The network answers; the rest of the try block and the catch block run.
GenRespond(resp, t) ==
    /\ genPc = "fetching"
    /\ genResponse' = resp
    /\ genResult' = generateLesson(genVariant, genSkill, genLevel, genNumber,
                                   resp, t)
    /\ genPc' = IF genResult'.ok THEN "returned" ELSE "thrown"
    /\ UNCHANGED <<genVariant, genSkill, genLevel, genNumber, genFetches>>
    /\ UNCHANGED <<seqVars, storeVars, auxVars>>

GenNext ==
    \/ \E variant \in Variants, sk \in Skills, lv \in Levels, n \in 1..2 :
           GenCall(variant, sk, lv, n)
    \/ GenFetch
    \/ \E resp \in Responses, t \in Times : GenRespond(resp, t)

\* ------------------------------------------------------------------------
\* One batch call.
\*   mode "strict"      generateLessonSequence(skill, level, startIndex, count)
\*   mode "bestEffort"  generateAdaptiveLessons(skill, level, count)
\* startIndex is what the caller asks for; generateAdaptiveLessons has no
\* such parameter and never reads it.
\* ------------------------------------------------------------------------
Modes == {"strict", "bestEffort"}

\* The responses the network gives during a batch call.
ValidText == <<"x", "{", "q", "}">>
SeqResponses ==
    {NetworkError,
     [net |-> "ok", status |-> 200, body |-> "text", text |-> <<"x">>],
     [net |-> "ok", status |-> 200, body |-> "text", text |-> ValidText]}

VariantOf(m) == IF m = "strict" THEN "contentGenerator" ELSE "part_000"

\* for (let i = 0; i < count; i++)  /  for (let i = 1; i <= count; i++)
LoopStart(m) == IF m = "strict" THEN 0 ELSE 1
LoopCondExclusive(m, idx, c) == idx < c
LoopCond(m, idx, c) == IF m = "strict" THEN idx < c ELSE idx <= c

\* generateLesson(skill, level, startIndex + i, ...) / generateLesson(skill, level, i, ...)
LessonNumber(m, s, idx) == IF m = "strict" THEN s + idx ELSE idx

\* The lesson numbers a call (m, s, c) goes through when nothing stops it.
CallNumbers(m, s, c) ==
    [j \in 1..c |-> LessonNumber(m, s, LoopStart(m) + j - 1)]

\* A catch block that never rethrows / that always rethrows.
RethrowsNever(m) == FALSE
RethrowsAlways(m) == TRUE

\* catch block: strict rethrows, best effort swallows.
Rethrows(m) == m = "strict"

\* Whether a pacing delay follows a successful generateLesson.
DelayAfterSuccess(m, idx, c) == IF m = "strict" THEN idx < c - 1 ELSE TRUE

DelayMs(m) == IF m = "strict" THEN StrictDelayMs ELSE BestEffortDelayMs

InitSeq ==
    /\ seqPc = "idle"
    /\ mode = "strict"
    /\ skill = "reading"
    /\ level = "beginner"
    /\ startIndex = 1
    /\ count = 0
    /\ oracle = <<>>
    /\ i = 0
    /\ lessons = <<>>
    /\ inflight = <<>>
    /\ trace = <<>>
    /\ now = 1
    /\ seqResult = [ok |-> FALSE, error |-> "none", lessons |-> <<>>]

\* Entry: const lessons = []; let i = ...
SeqCall(m, sk, lv, s, c, o) ==
    /\ seqPc = "idle"
    /\ seqPc' = "loop"
    /\ mode' = m
    /\ skill' = sk
    /\ level' = lv
    /\ startIndex' = s
    /\ count' = c
    /\ oracle' = o
    /\ i' = LoopStart(m)
    /\ lessons' = <<>>
    /\ UNCHANGED <<inflight, trace, now, seqResult>>
    /\ UNCHANGED <<genVars, storeVars, auxVars>>

\* generateLesson called without await: the loop goes on at once.
SeqRequestNoAwait ==
    /\ seqPc = "loop"
    /\ LoopCond(mode, i, count)
    /\ inflight' = Append(inflight, LessonNumber(mode, startIndex, i))
    /\ trace' = Append(trace, [ev |-> "call",
                               arg |-> LessonNumber(mode, startIndex, i)])
    /\ i' = i + 1
    /\ UNCHANGED <<seqPc, mode, skill, level, startIndex, count, oracle,
                   lessons, now, seqResult>>
    /\ UNCHANGED <<genVars, storeVars, auxVars>>

\* Loop test holds: generateLesson is called and awaited.
SeqRequest ==
    /\ seqPc = "loop"
    /\ LoopCond(mode, i, count)
    /\ inflight' = Append(inflight, LessonNumber(mode, startIndex, i))
    /\ trace' = Append(trace, [ev |-> "call",
                               arg |-> LessonNumber(mode, startIndex, i)])
    /\ seqPc' = "awaitGen"
    /\ UNCHANGED <<mode, skill, level, startIndex, count, oracle, i, lessons,
                   now, seqResult>>
    /\ UNCHANGED <<genVars, storeVars, auxVars>>

\* The awaited generateLesson settles.
SeqGenDone ==
    /\ seqPc = "awaitGen"
    /\ inflight # <<>>
    /\ LET n == Head(inflight)
           r == generateLesson(VariantOf(mode), skill, level, n, oracle[n], now)
       IN /\ inflight' = Tail(inflight)
          /\ now' = now + 1
          /\ IF r.ok
             THEN /\ lessons' = lessons \o r.lesson
                  /\ IF DelayAfterSuccess(mode, i, count)
                     THEN seqPc' = "awaitDelay" /\ i' = i
                     ELSE seqPc' = "loop" /\ i' = i + 1
                  /\ UNCHANGED seqResult
             ELSE /\ lessons' = lessons
                  /\ IF Rethrows(mode)
                     THEN /\ seqPc' = "thrown"
                          /\ i' = i
                          /\ seqResult' = [ok |-> FALSE, error |-> r.error,
                                           lessons |-> <<>>]
                     ELSE /\ seqPc' = "loop"
                          /\ i' = i + 1
                          /\ UNCHANGED seqResult
    /\ UNCHANGED <<mode, skill, level, startIndex, count, oracle, trace>>
    /\ UNCHANGED <<genVars, storeVars, auxVars>>

\* The awaited setTimeout fires.
SeqDelayDone ==
    /\ seqPc = "awaitDelay"
    /\ trace' = Append(trace, [ev |-> "delay", arg |-> DelayMs(mode)])
    /\ now' = now + 1
    /\ i' = i + 1
    /\ seqPc' = "loop"
    /\ UNCHANGED <<mode, skill, level, startIndex, count, oracle, lessons,
                   inflight, seqResult>>
    /\ UNCHANGED <<genVars, storeVars, auxVars>>

\* Loop test fails: return lessons.
SeqReturn ==
    /\ seqPc = "loop"
    /\ ~LoopCond(mode, i, count)
    /\ seqPc' = "returned"
    /\ seqResult' = [ok |-> TRUE, error |-> "none", lessons |-> lessons]
    /\ UNCHANGED <<mode, skill, level, startIndex, count, oracle, i, lessons,
                   inflight, trace, now>>
    /\ UNCHANGED <<genVars, storeVars, auxVars>>

SeqNext ==
    \/ \E m \in Modes, sk \in Skills, lv \in Levels, s \in 1..MaxStartIndex,
          c \in 0..MaxCount :
           \E o \in [{CallNumbers(m, s, c)[j] : j \in 1..c} -> SeqResponses] :
               SeqCall(m, sk, lv, s, c, o)
    \/ SeqRequest
    \/ SeqGenDone
    \/ SeqDelayDone
    \/ SeqReturn

\* ------------------------------------------------------------------------
\* The persisted performance log (localStorage under STORAGE_KEY).
\* A stored value is one of
\*   "absent"      getItem returns null
\*   "empty"       the empty string
\*   "garbage"     a string JSON.parse rejects
\*   "nonArray"    JSON that is not an array (no .map)
\*   "badElement"  a JSON array with a null element (the map callback throws)
\*   "array"       a JSON array of serialised LessonResults
\* ------------------------------------------------------------------------
Contexts == {1, 2}

Stored(kind) == [kind |-> kind, entries |-> <<>>]
ForeignValues ==
    {Stored("absent"), Stored("empty"), Stored("garbage"), Stored("nonArray"),
     Stored("badElement")}

\* A LessonResult in memory: completedAt is a Date.
MkResult(id, sk) ==
    [lessonId |-> id, skill |-> sk, completedAt |-> [date |-> id]]

\* JSON.stringify of one result: the Date becomes its ISO string.
StringifyResult(r) ==
    [r EXCEPT !.completedAt = [iso |-> r.completedAt.date]]

\* ({...result, completedAt: new Date(result.completedAt)})
ReviveResult(e) ==
    [e EXCEPT !.completedAt = [date |-> e.completedAt.iso]]

\* JSON.stringify(existing)
Stringify(results) ==
    [kind |-> "array",
     entries |-> [j \in 1..Len(results) |-> StringifyResult(results[j])]]

\* if (saved)
Truthy(st) == st.kind \notin {"absent", "empty"}

\* The try block of getPerformanceData: JSON.parse(saved).map(...)
TryParse(st) ==
    IF st.kind = "array"
    THEN [threw |-> FALSE,
          value |-> [j \in 1..Len(st.entries) |-> ReviveResult(st.entries[j])]]
    ELSE [threw |-> TRUE, value |-> <<>>]

\* A catch block that lets the parse failure escape.
CatchBlockRethrows == [threw |-> TRUE, value |-> <<>>]

\* catch { return []; }
CatchBlock == [threw |-> FALSE, value |-> <<>>]

getPerformanceData(st) ==
    IF Truthy(st)
    THEN IF TryParse(st).threw THEN CatchBlock ELSE TryParse(st)
    ELSE [threw |-> FALSE, value |-> <<>>]

\* A trim that cuts the newest entries instead of the oldest.
TrimNewest(results) ==
    IF Len(results) > MaxLogEntries
    THEN SubSeq(results, 1, MaxLogEntries)
    ELSE results

\* if (existing.length > 100) existing.splice(0, existing.length - 100)
Trim(results) ==
    IF Len(results) > MaxLogEntries
    THEN SubSeq(results, Len(results) - MaxLogEntries + 1, Len(results))
    ELSE results

InitCtx ==
    /\ ctxPc = [c \in Contexts |-> "idle"]
    /\ existing = [c \in Contexts |-> <<>>]
    /\ pending = [c \in Contexts |-> <<>>]
    /\ nextId = 1
    /\ appended = <<>>
    /\ readResult = [of |-> Stored("absent"), threw |-> FALSE, value |-> <<>>]

InitStore == storage = Stored("absent") /\ InitCtx

\* savePerformanceData, lines 42-48: read the log, push the result, trim.
SaveRead(c, sk, max) ==
    /\ ctxPc[c] = "idle"
    /\ nextId <= max
    /\ LET r == getPerformanceData(storage)
       IN IF r.threw
          THEN /\ ctxPc' = [ctxPc EXCEPT ![c] = "failed"]
               /\ UNCHANGED <<existing, pending>>
          ELSE /\ ctxPc' = [ctxPc EXCEPT ![c] = "saving"]
               /\ existing' = [existing EXCEPT
                     ![c] = Trim(Append(r.value, MkResult(nextId, sk)))]
               /\ pending' = [pending EXCEPT ![c] = <<MkResult(nextId, sk)>>]
    /\ nextId' = nextId + 1
    /\ UNCHANGED <<storage, appended, readResult>>
    /\ UNCHANGED <<genVars, seqVars, auxVars>>

\* savePerformanceData, line 50: localStorage.setItem(...)
SaveWrite(c) ==
    /\ ctxPc[c] = "saving"
    /\ storage' = Stringify(existing[c])
    /\ appended' = appended \o pending[c]
    /\ ctxPc' = [ctxPc EXCEPT ![c] = "idle"]
    /\ existing' = [existing EXCEPT ![c] = <<>>]
    /\ pending' = [pending EXCEPT ![c] = <<>>]
    /\ UNCHANGED <<nextId, readResult>>
    /\ UNCHANGED <<genVars, seqVars, auxVars>>

\* calculateUserPerformance, line 69: const allResults = getPerformanceData()
CalcRead(c) ==
    /\ ctxPc[c] = "idle"
    /\ LET r == getPerformanceData(storage)
       IN /\ readResult' = [of |-> storage, threw |-> r.threw,
                            value |-> r.value]
          /\ ctxPc' = [ctxPc EXCEPT ![c] = IF r.threw THEN "failed" ELSE "idle"]
    /\ UNCHANGED <<storage, existing, pending, nextId, appended>>
    /\ UNCHANGED <<genVars, seqVars, auxVars>>

\* Something else than this program puts a value under the key (or clears it).
ExternalWrite(v) ==
    /\ storage' = v
    /\ UNCHANGED <<ctxPc, existing, pending, nextId, appended, readResult>>
    /\ UNCHANGED <<genVars, seqVars, auxVars>>

\* A present value JSON.parse(saved).map(...) throws on gets under the key
\* while no savePerformanceData is running.
CorruptWrite(v) ==
    /\ v.kind \in {"garbage", "nonArray", "badElement"}
    /\ \A c \in Contexts : ctxPc[c] = "idle"
    /\ storage # v
    /\ ExternalWrite(v)

\* ------------------------------------------------------------------------
\* The two batch policies on the same arguments: once a call has settled,
\* the caller makes the other policy's call with the same skill, level,
\* startIndex, count and the same answers of the model API.
\* ------------------------------------------------------------------------
PairResponses ==
    {NetworkError,
     [net |-> "ok", status |-> 200, body |-> "text", text |-> <<"{", "}">>],
     [net |-> "ok", status |-> 200, body |-> "text", text |-> ValidText]}

OtherMode(m) == IF m = "strict" THEN "bestEffort" ELSE "strict"

InitPair ==
    /\ runs = 1
    /\ prev = [mode |-> "none", trace |-> <<>>,
               result |-> [ok |-> FALSE, error |-> "none", lessons |-> <<>>]]

SeqRerun ==
    /\ seqPc \in {"returned", "thrown"}
    /\ runs = 1
    /\ runs' = 2
    /\ prev' = [mode |-> mode, trace |-> trace, result |-> seqResult]
    /\ mode' = OtherMode(mode)
    /\ i' = LoopStart(OtherMode(mode))
    /\ lessons' = <<>>
    /\ trace' = <<>>
    /\ seqResult' = [ok |-> FALSE, error |-> "none", lessons |-> <<>>]
    /\ seqPc' = "loop"
    /\ UNCHANGED <<skill, level, startIndex, count, oracle, inflight, now>>
    /\ UNCHANGED <<genVars, storeVars, perfVars, fnVars>>

PairNext ==
    \/ \E m \in Modes, sk \in Skills, s \in 1..MaxStartIndex, c \in 0..MaxCount :
           \E o \in [1..(s + c - 1) -> PairResponses] :
               SeqCall(m, sk, "advanced", s, c, o)
    \/ SeqRequest
    \/ SeqGenDone
    \/ SeqDelayDone
    \/ SeqReturn
    \/ SeqRerun

\* ------------------------------------------------------------------------
\* calculateUserPerformance(user, skill?)
\* Percentages are kept as exact fractions [num, den].
\* ------------------------------------------------------------------------
WeakBelow == 70
StrongFrom == 85
MaxAreas == 3
RecentWindow == 10
SkillList == <<"listening", "reading", "speaking", "writing", "grammar",
               "vocabulary">>

\* (score / maxScore) * 100
Pct(score, maxScore) == [num |-> score * 100, den |-> maxScore]
FracAdd(a, b) == [num |-> a.num * b.den + b.num * a.den, den |-> a.den * b.den]
FracLess(a, b) == a.num * b.den < b.num * a.den
FracAtLeast(a, n) == a.num >= n * a.den

RECURSIVE FracSum(_)
\* scores.reduce((a, b) => a + b, 0)
FracSum(fs) ==
    IF fs = <<>> THEN [num |-> 0, den |-> 1]
    ELSE FracAdd(FracSum(SubSeq(fs, 1, Len(fs) - 1)), fs[Len(fs)])

\* sum / scores.length
Mean(fs) == [num |-> FracSum(fs).num, den |-> FracSum(fs).den * Len(fs)]

\* const topic = qr.topic || qr.type   (topic: <<>> when the field is absent)
TopicKey(qr) ==
    IF qr.topic = <<>> \/ qr.topic = <<"">> THEN qr.type ELSE qr.topic[1]

RECURSIVE FlatQuestions(_)
\* results.forEach(result => result.questionResults.forEach(...))
FlatQuestions(results) ==
    IF results = <<>> THEN <<>>
    ELSE FlatQuestions(SubSeq(results, 1, Len(results) - 1))
         \o results[Len(results)].questionResults

RECURSIVE TopicOrder(_)
\* The keys of topicPerformance in insertion order (Object.entries order).
TopicOrder(qs) ==
    IF qs = <<>> THEN <<>>
    ELSE LET before == TopicOrder(SubSeq(qs, 1, Len(qs) - 1))
             key == TopicKey(qs[Len(qs)])
         IN IF \E j \in 1..Len(before) : before[j] = key
            THEN before
            ELSE Append(before, key)

\* topicScores: { topic, score: (perf.correct / perf.total) * 100 }
TopicScores(qs) ==
    [j \in 1..Len(TopicOrder(qs)) |->
        LET key == TopicOrder(qs)[j]
            total == Len(SelectSeq(qs, LAMBDA q : TopicKey(q) = key))
            correct == Len(SelectSeq(qs, LAMBDA q : TopicKey(q) = key /\ q.correct))
        IN [topic |-> key, score |-> Pct(correct, total)]]

\* The comparator's sign: a sorts before b.
\* The weak-area comparator with its operands swapped.
WeakBeforeSwapped(a, b) == FracLess(b.score, a.score)
WeakBefore(a, b) == FracLess(a.score, b.score)
StrongBefore(a, b) == FracLess(b.score, a.score)
SortsBefore(dir, a, b) ==
    IF dir = "ascending" THEN WeakBefore(a, b) ELSE StrongBefore(a, b)

RECURSIVE InsertSorted(_, _, _)
\* Insert t into a sorted sequence behind every element that does not sort
\* after it (Array.prototype.sort is stable).
InsertSorted(dir, sorted, t) ==
    IF sorted = <<>> THEN <<t>>
    ELSE IF SortsBefore(dir, t, sorted[Len(sorted)])
         THEN Append(InsertSorted(dir, SubSeq(sorted, 1, Len(sorted) - 1), t),
                     sorted[Len(sorted)])
         ELSE Append(sorted, t)

RECURSIVE SortTopics(_, _)
SortTopics(dir, ts) ==
    IF ts = <<>> THEN <<>>
    ELSE InsertSorted(dir, SortTopics(dir, SubSeq(ts, 1, Len(ts) - 1)),
                      ts[Len(ts)])

\* .slice(0, 3).map(t => t.topic)
TopTopics(ts) ==
    [j \in 1..(IF Len(ts) < MaxAreas THEN Len(ts) ELSE MaxAreas) |-> ts[j].topic]

IsWeak(t) == ~FracAtLeast(t.score, WeakBelow)
IsStrong(t) == FracAtLeast(t.score, StrongFrom)

WeakAreas(qs) ==
    TopTopics(SortTopics("ascending", SelectSeq(TopicScores(qs), IsWeak)))
StrongAreas(qs) ==
    TopTopics(SortTopics("descending", SelectSeq(TopicScores(qs), IsStrong)))

ResultPcts(results) ==
    [j \in 1..Len(results) |-> Pct(results[j].score, results[j].maxScore)]

\* scores.slice(-10)
LastScores(fs) ==
    IF Len(fs) > RecentWindow
    THEN SubSeq(fs, Len(fs) - RecentWindow + 1, Len(fs))
    ELSE fs

\* One entry of skillPerformance.
SkillSummary(skillResults) ==
    LET qs == FlatQuestions(skillResults)
        keys == {TopicKey(qs[j]) : j \in 1..Len(qs)}
    IN [averageScore |-> Mean(ResultPcts(skillResults)),
        completedLessons |-> Len(skillResults),
        lastLessonDate |->
            [date |-> Max({skillResults[j].completedAt.date :
                              j \in 1..Len(skillResults)})],
        topicScores |->
            [key \in keys |->
                LET mine == SelectSeq(qs, LAMBDA q : TopicKey(q) = key)
                IN [j \in 1..Len(mine) |-> Pct(mine[j].score, mine[j].maxScore)]]]

\* A breakdown over every skill found in the log, not only the listed ones.
SkillPerformanceMapAnySkill(all) ==
    [sk \in {all[j].skill : j \in 1..Len(all)} |->
        SkillSummary(SelectSeq(all, LAMBDA r : r.skill = sk))]
\* skills.forEach(skillName => { ... if (skillResults.length > 0) ... })
SkillPerformanceMap(all) ==
    LET OfSkill(sk) == SelectSeq(all, LAMBDA r : r.skill = sk)
        present == {SkillList[j] : j \in 1..Len(SkillList)}
                   \cap {all[j].skill : j \in 1..Len(all)}
    IN [sk \in present |-> SkillSummary(OfSkill(sk))]

ZeroSummary ==
    [averageScore |-> [num |-> 0, den |-> 1], completedLessons |-> 0,
     weakAreas |-> <<>>, strongAreas |-> <<>>, recentScores |-> <<>>,
     skillPerformance |-> <<>>]

\* A selection that ignores the skill argument.
RelevantResultsUnfiltered(all, sk) == all
\* skill ? allResults.filter(r => r.skill === skill) : allResults
\* (the filter "" stands for no skill argument)
RelevantResults(all, sk) ==
    IF sk = "" THEN all ELSE SelectSeq(all, LAMBDA r : r.skill = sk)

calculateUserPerformance(all, sk) ==
    LET relevant == RelevantResults(all, sk)
    IN IF Len(relevant) = 0 THEN ZeroSummary
       ELSE [averageScore |-> Mean(ResultPcts(relevant)),
             completedLessons |-> Len(relevant),
             weakAreas |-> WeakAreas(FlatQuestions(relevant)),
             strongAreas |-> StrongAreas(FlatQuestions(relevant)),
             recentScores |-> LastScores(ResultPcts(relevant)),
             skillPerformance |-> SkillPerformanceMap(all)]

PerfFilters == {"", "reading", "grammar", "listening"}

InitPerf == perfOut = [f \in PerfFilters |-> <<>>]

\* One call calculateUserPerformance(user, f) on the stored log.
CalcPerformance(f) ==
    /\ perfOut[f] = <<>>
    /\ perfOut' = [perfOut EXCEPT
          ![f] = <<calculateUserPerformance(getPerformanceData(storage).value, f)>>]
    /\ UNCHANGED <<genVars, seqVars, storeVars, pairVars, fnVars>>

\* ------------------------------------------------------------------------
\* getPerformanceTrend(recentScores) and getDifficultyAdjustment(performance)
\* JavaScript numbers are IEEE-754 doubles: a value is kept as its integer
\* part and the bits of its fraction, and every division, addition and
\* subtraction rounds its exact result to 53 significant bits, ties to even.
\* Sums of the (integer) scores are exact.
\* ------------------------------------------------------------------------
Significand == 53
FracBits == 56
TrendWindow == 3
TrendMargin == 10

RECURSIVE BitLength(_)
BitLength(n) == IF n = 0 THEN 0 ELSE 1 + BitLength(n \div 2)

RECURSIVE DivBits(_, _, _)
\* The next n bits of the quotient r / k, r < k, by long division.
DivBits(r, k, n) ==
    IF n = 0 THEN <<>>
    ELSE <<(2 * r) \div k>> \o DivBits((2 * r) % k, k, n - 1)

RECURSIVE DivRest(_, _, _)
\* The remainder left after n bits of r / k.
DivRest(r, k, n) == IF n = 0 THEN r ELSE DivRest((2 * r) % k, k, n - 1)

\* The exact quotient a / k cut after FracBits bits; sticky tells whether
\* bits were cut off.
ExactQuotient(a, k) ==
    [int |-> a \div k,
     frac |-> DivBits(a % k, k, FracBits),
     sticky |-> DivRest(a % k, k, FracBits) # 0]

RECURSIVE FirstOne(_, _)
\* The position of the first 1 in the bits from position j on (past the end
\* when there is none).
FirstOne(bits, j) ==
    IF j > Len(bits) \/ bits[j] = 1 THEN j ELSE FirstOne(bits, j + 1)

RECURSIVE AddUlp(_, _, _)
\* Add one unit at fraction position j, carrying into the integer part.
AddUlp(int, frac, j) ==
    IF j = 0 THEN [int |-> int + 1, frac |-> frac, sticky |-> FALSE]
    ELSE IF frac[j] = 0
         THEN [int |-> int, frac |-> [frac EXCEPT ![j] = 1], sticky |-> FALSE]
         ELSE AddUlp(int, [frac EXCEPT ![j] = 0], j - 1)

\* Round to nearest, ties to even, at 53 significant bits.
RoundToDouble(x) ==
    LET keep == IF x.int > 0 THEN Significand - BitLength(x.int)
                ELSE FirstOne(x.frac, 1) - 1 + Significand
    IN IF keep >= Len(x.frac)
       THEN [x EXCEPT !.sticky = FALSE]
       ELSE LET guard == x.frac[keep + 1]
                rest == x.sticky
                        \/ \E j \in (keep + 2)..Len(x.frac) : x.frac[j] = 1
                lsb == IF keep = 0 THEN x.int % 2 ELSE x.frac[keep]
                cut == [j \in 1..Len(x.frac) |->
                           IF j <= keep THEN x.frac[j] ELSE 0]
            IN IF guard = 1 /\ (rest \/ lsb = 1)
               THEN AddUlp(x.int, cut, keep)
               ELSE [int |-> x.int, frac |-> cut, sticky |-> FALSE]

\* a / k
Divide(a, k) == RoundToDouble(ExactQuotient(a, k))
\* x + n
Plus(x, n) == RoundToDouble([x EXCEPT !.int = x.int + n])
\* x - n for x >= n
Minus(x, n) == RoundToDouble([x EXCEPT !.int = x.int - n])
\* x < y
LessThan(x, y) ==
    \/ x.int < y.int
    \/ /\ x.int = y.int
       /\ \E j \in 1..Len(x.frac) :
              /\ x.frac[j] < y.frac[j]
              /\ \A h \in 1..(j - 1) : x.frac[h] = y.frac[h]

RECURSIVE SumOf(_)
\* xs.reduce((a, b) => a + b, 0)
SumOf(xs) == IF xs = <<>> THEN 0 ELSE SumOf(Tail(xs)) + Head(xs)

getPerformanceTrend(scores) ==
    IF Len(scores) < TrendWindow THEN "stable"
    ELSE LET \* recentScores.slice(-3)
             recent == SubSeq(scores, Len(scores) - TrendWindow + 1,
                              Len(scores))
             \* recentScores.slice(-6, -3)
             older == SubSeq(scores,
                             Max({1, Len(scores) - 2 * TrendWindow + 1}),
                             Len(scores) - TrendWindow)
             recentAvg == Divide(SumOf(recent), Len(recent))
             olderAvg == Divide(SumOf(older), Len(older))
         IN IF older = <<>> THEN "stable"
            ELSE IF LessThan(Plus(olderAvg, TrendMargin), recentAvg)
            THEN "improving"
            \* olderAvg - 10 is negative for olderAvg < 10 and no average of
            \* non-negative scores is below it
            ELSE IF /\ olderAvg.int >= TrendMargin
                    /\ LessThan(recentAvg, Minus(olderAvg, TrendMargin))
                 THEN "declining"
                 ELSE "stable"

InitAdapt ==
    /\ performance = <<>>
    /\ trend = <<>>
    /\ adjustment = [v \in Variants |-> <<>>]

\* ------------------------------------------------------------------------
\* getNextLessonNumber(user, skill, level)
\* An id is the sequence of the parts the template strings join.
\* ------------------------------------------------------------------------
\* `${skill}-${level}-${lessonNumber}` (part_000) and
\* `${skill}-${level}-${lessonNumber}-${Date.now()}` (contentGenerator.ts)
IdOf(sk, lv, n) == <<sk, "-", lv, "-", n>>
StampedIdOf(sk, lv, n) == <<sk, "-", lv, "-", n, "-", "now">>

\* An includes that looks for the first part of the needle only.
IncludesFirstPart(hay, needle) == \E j \in 1..Len(hay) : hay[j] = needle[1]
\* hay.includes(needle)
Includes(hay, needle) ==
    \E j \in 0..(Len(hay) - Len(needle)) :
        SubSeq(hay, j + 1, j + Len(needle)) = needle

\* The needle is `${skill}-${level}`.
getNextLessonNumber(u, sk, lv) ==
    LET completed == u[sk].completed
        levelLessons == SelectSeq(completed,
                                  LAMBDA id : Includes(id, <<sk, "-", lv>>))
    IN Len(levelLessons) + 1

InitNextNumber ==
    /\ user = [sk \in Skills |-> [completed |-> <<>>]]
    /\ nextNumber = <<>>

\* One call getNextLessonNumber(user, sk, lv).
NextNumberCall(sk, lv) ==
    /\ nextNumber = <<>>
    /\ nextNumber' = <<[skill |-> sk, level |-> lv,
                        value |-> getNextLessonNumber(user, sk, lv)]>>
    /\ UNCHANGED user
    /\ UNCHANGED <<genVars, seqVars, storeVars, pairVars, perfVars, adaptVars,
                   listVars>>

\* Completed lists: ids of both id formats, of the skill's own and of other
\* skills and levels.
MaxCompleted == 3
CompletedLists ==
    UNION {[1..k ->
              {IdOf("reading", "beginner", "1"), IdOf("reading", "beginner", "2"),
               StampedIdOf("reading", "beginner", "3"),
               IdOf("reading", "advanced", "1"),
               IdOf("grammar", "beginner", "1")}] : k \in 0..MaxCompleted}

InitList ==
    /\ listSkill = "reading" /\ listLevel = "beginner"
    /\ listLessons = <<>>
    /\ loading = TRUE
    /\ error = <<>>
    /\ generatingLesson = FALSE
    /\ pendingCalls = {}
    /\ callCount = 0

InitFn == InitAdapt /\ InitNextNumber /\ InitList

\* ------------------------------------------------------------------------
\* The LessonList component.  A sequence call it has issued stays in
\* pendingCalls until its promise settles; calls settle in any order.
\* ------------------------------------------------------------------------
MaxListCalls == 3
InitialLessons == 3

\* The lessons a settled call (c) hands to the component.
SequenceOf(c, n) ==
    [j \in 1..n |-> [skill |-> c.skill, level |-> c.level, call |-> c.id]]

\* loadLessons up to its await: setLoading(true), setError(null), the call.
LoadLessons(sk, lv) ==
    /\ loading' = TRUE
    /\ error' = <<>>
    /\ pendingCalls' = pendingCalls \cup
          {[id |-> callCount + 1, kind |-> "load", skill |-> sk, level |-> lv]}
    /\ callCount' = callCount + 1

\* useEffect(() => { loadLessons(); }, [skill, level]) after the first render.
Mount ==
    /\ callCount = 0
    /\ LoadLessons(listSkill, listLevel)
    /\ UNCHANGED <<listSkill, listLevel, listLessons, generatingLesson>>
    /\ UNCHANGED <<genVars, seqVars, storeVars, pairVars, perfVars, adaptVars,
                   nextVars>>

\* The parent renders the component with another skill or level: the effect
\* runs again.
PropsChange(sk, lv) ==
    /\ callCount > 0
    /\ callCount < MaxListCalls
    /\ <<sk, lv>> # <<listSkill, listLevel>>
    /\ listSkill' = sk
    /\ listLevel' = lv
    /\ LoadLessons(sk, lv)
    /\ UNCHANGED <<listLessons, generatingLesson>>
    /\ UNCHANGED <<genVars, seqVars, storeVars, pairVars, perfVars, adaptVars,
                   nextVars>>

\* The Try Again button of the error screen: onClick={loadLessons}.
TryAgain ==
    /\ callCount < MaxListCalls
    /\ ~loading
    /\ error # <<>>
    /\ LoadLessons(listSkill, listLevel)
    /\ UNCHANGED <<listSkill, listLevel, listLessons, generatingLesson>>
    /\ UNCHANGED <<genVars, seqVars, storeVars, pairVars, perfVars, adaptVars,
                   nextVars>>

\* loadLessons after its await: setLessons(generatedLessons), then finally.
LoadResolve(c) ==
    /\ c \in pendingCalls
    /\ c.kind = "load"
    /\ pendingCalls' = pendingCalls \ {c}
    /\ listLessons' = SequenceOf(c, InitialLessons)
    /\ loading' = FALSE
    /\ UNCHANGED <<listSkill, listLevel, error, generatingLesson, callCount>>
    /\ UNCHANGED <<genVars, seqVars, storeVars, pairVars, perfVars, adaptVars,
                   nextVars>>

\* loadLessons when the call throws: catch, then finally.
LoadReject(c) ==
    /\ c \in pendingCalls
    /\ c.kind = "load"
    /\ pendingCalls' = pendingCalls \ {c}
    /\ error' = <<"Failed to load lessons. Please try again.">>
    /\ loading' = FALSE
    /\ UNCHANGED <<listSkill, listLevel, listLessons, generatingLesson,
                   callCount>>
    /\ UNCHANGED <<genVars, seqVars, storeVars, pairVars, perfVars, adaptVars,
                   nextVars>>

\* The generate-next button (shown with the list, disabled while
\* generatingLesson): generateNextLesson up to its await.
GenerateNext ==
    /\ callCount < MaxListCalls
    /\ ~loading
    /\ error = <<>>
    /\ ~generatingLesson
    /\ generatingLesson' = TRUE
    /\ pendingCalls' = pendingCalls \cup
          {[id |-> callCount + 1, kind |-> "next", skill |-> listSkill,
            level |-> listLevel]}
    /\ callCount' = callCount + 1
    /\ UNCHANGED <<listSkill, listLevel, listLessons, loading, error>>
    /\ UNCHANGED <<genVars, seqVars, storeVars, pairVars, perfVars, adaptVars,
                   nextVars>>

\* generateNextLesson after its await: setLessons(prev => [...prev,
\* ...newLessons]), then finally.
NextResolve(c) ==
    /\ c \in pendingCalls
    /\ c.kind = "next"
    /\ pendingCalls' = pendingCalls \ {c}
    /\ listLessons' = listLessons \o SequenceOf(c, 1)
    /\ generatingLesson' = FALSE
    /\ UNCHANGED <<listSkill, listLevel, loading, error, callCount>>
    /\ UNCHANGED <<genVars, seqVars, storeVars, pairVars, perfVars, adaptVars,
                   nextVars>>

\* generateNextLesson when the call throws: the error is logged only.
NextReject(c) ==
    /\ c \in pendingCalls
    /\ c.kind = "next"
    /\ pendingCalls' = pendingCalls \ {c}
    /\ generatingLesson' = FALSE
    /\ UNCHANGED <<listSkill, listLevel, listLessons, loading, error,
                   callCount>>
    /\ UNCHANGED <<genVars, seqVars, storeVars, pairVars, perfVars, adaptVars,
                   nextVars>>

ListNext ==
    \/ Mount
    \/ \E sk \in Skills, lv \in {"beginner", "advanced"} : PropsChange(sk, lv)
    \/ TryAgain
    \/ GenerateNext
    \/ \E c \in pendingCalls : LoadResolve(c)
    \/ \E c \in pendingCalls : LoadReject(c)
    \/ \E c \in pendingCalls : NextResolve(c)
    \/ \E c \in pendingCalls : NextReject(c)

InitNext ==
    /\ InitGen /\ InitSeq /\ InitStore /\ InitPair /\ InitPerf
    /\ InitAdapt /\ InitList
    /\ nextNumber = <<>>
    /\ user \in {[sk \in Skills |->
                      [completed |-> IF sk = "reading" THEN l ELSE g]] :
                  l \in CompletedLists,
                  g \in {<<>>, <<IdOf("grammar", "beginner", "1"),
                                 IdOf("reading", "beginner", "1")>>}}

NextNumberNext ==
    \E sk \in Skills, lv \in {"beginner", "advanced"} : NextNumberCall(sk, lv)

\* One call getPerformanceTrend(performance.recentScores).
TrendCall ==
    /\ performance # <<>>
    /\ trend = <<>>
    /\ trend' = <<getPerformanceTrend(performance[1].recentScores)>>
    /\ UNCHANGED <<performance, adjustment>>
    /\ UNCHANGED <<genVars, seqVars, storeVars, pairVars, perfVars, nextVars,
                   listVars>>

IncreaseText ==
    "Increase difficulty slightly. Add more complex vocabulary and sentence structures."
DecreaseText ==
    "Decrease difficulty slightly. Use simpler vocabulary and clearer explanations."
MaintainText ==
    "Maintain current difficulty with slight variation to keep it engaging."
StandardText == "Use standard difficulty for this level."
HighAverage == 85
LowAverage == 60
GoodAverage == 75

\* getDifficultyAdjustment(performance?) of the file v; the argument is <<>>
\* when it is left out.
getDifficultyAdjustment(v, perf) ==
    IF v = "contentGenerator"
    THEN IF perf = <<>> \/ perf[1].completedLessons = 0 THEN StandardText
         ELSE LET avgScore == perf[1].averageScore
                  label == getPerformanceTrend(perf[1].recentScores)
              IN IF avgScore >= HighAverage /\ label = "improving"
                 THEN IncreaseText
                 ELSE IF avgScore <= LowAverage \/ label = "declining"
                      THEN DecreaseText
                      ELSE IF avgScore >= GoodAverage THEN MaintainText
                           ELSE StandardText
    ELSE IF perf = <<>> THEN "standard"
         ELSE IF perf[1].averageScore >= HighAverage THEN "increase difficulty"
              ELSE IF perf[1].averageScore <= LowAverage
                   THEN "decrease difficulty"
                   ELSE "maintain current difficulty"

\* One call getDifficultyAdjustment(performance) in the file v.
AdjustCall(v) ==
    /\ adjustment[v] = <<>>
    /\ adjustment' = [adjustment EXCEPT
          ![v] = <<getDifficultyAdjustment(v, performance)>>]
    /\ UNCHANGED <<performance, trend>>
    /\ UNCHANGED <<genVars, seqVars, storeVars, pairVars, perfVars, nextVars,
                   listVars>>

\* Score lists the trend is computed for.
MaxScores == 6
ScoreLists == UNION {[1..k -> {40, 60, 70}] : k \in 0..MaxScores}
Performance(avg, n, scores) ==
    [averageScore |-> avg, completedLessons |-> n, recentScores |-> scores]

InitTrend ==
    /\ InitGen /\ InitSeq /\ InitStore /\ InitPair /\ InitPerf
    /\ InitNextNumber /\ InitList
    /\ trend = <<>>
    /\ adjustment = [v \in Variants |-> <<>>]
    /\ performance \in {<<Performance(70, Len(l), l)>> : l \in ScoreLists}

TrendNext == TrendCall

\* Summaries the adapter is called with: averages at and next to the three
\* thresholds, with and without completed lessons, recent scores of each
\* trend.
AdaptScores ==
    {<<>>, <<40, 40, 40, 70, 70, 70>>, <<70, 70, 70, 40, 40, 40>>,
     <<60, 60, 60, 60>>}

InitAdjust ==
    /\ InitGen /\ InitSeq /\ InitStore /\ InitPair /\ InitPerf
    /\ InitNextNumber /\ InitList
    /\ trend = <<>>
    /\ adjustment = [v \in Variants |-> <<>>]
    /\ performance \in
          {<<>>} \cup {<<Performance(a, n, l)>> :
                          a \in {60, 61, 74, 75, 84, 85}, n \in {0, 4},
                          l \in AdaptScores}

AdjustNext == TrendCall \/ \E v \in Variants : AdjustCall(v)

\* ------------------------------------------------------------------------
\* Result logs calculateUserPerformance is applied to.
\* ------------------------------------------------------------------------
Question(type, topic, correct) ==
    [questionId |-> "q", type |-> type, correct |-> correct,
     score |-> IF correct THEN 10 ELSE 0, maxScore |-> 10, topic |-> topic]

LessonResult(sk, t, score, maxScore, qs) ==
    [lessonId |-> t, skill |-> sk, level |-> "beginner", score |-> score,
     maxScore |-> maxScore, completedAt |-> [date |-> t], timeSpent |-> 60,
     questionResults |-> qs]

\* Logs for the topic classification: results scored by their questions.
TopicQuestions ==
    {Question("mcq", <<>>, TRUE), Question("mcq", <<>>, FALSE),
     Question("open", <<>>, FALSE), Question("fill-blank", <<>>, FALSE),
     Question("mcq", <<"tenses">>, FALSE)}
QuestionLists == UNION {[1..k -> TopicQuestions] : k \in 1..MaxQuestions}
ScoredResult(sk, t, qs) ==
    LessonResult(sk, t, 10 * Len(SelectSeq(qs, LAMBDA q : q.correct)),
                 10 * Len(qs), qs)
TopicLogs ==
    {<<>>}
    \cup {<<ScoredResult("reading", 1, qs)>> : qs \in QuestionLists}
    \cup {<<ScoredResult("reading", 1, qs), ScoredResult(y[1], 2, y[2])>> :
             qs \in QuestionLists, y \in Skills \X QuestionLists}

\* Logs for the skill breakdown: skills inside and outside the fixed list,
\* completion times in any order, scores the caller supplies unchecked
\* (savePerformanceData stores the result as given).
SkillResults ==
    {LessonResult(sk, t, sc, 10, <<Question("mcq", <<>>, TRUE)>>) :
        sk \in Skills \cup {"pronunciation"}, t \in 1..2, sc \in {5, 10, 15}}
SkillLogs == UNION {[1..k -> SkillResults] : k \in 0..MaxSkillLog}

InitTopics ==
    /\ InitGen /\ InitSeq /\ InitPair /\ InitPerf /\ InitFn /\ InitCtx
    /\ storage \in {Stringify(l) : l \in TopicLogs}

InitSkills ==
    /\ InitGen /\ InitSeq /\ InitPair /\ InitPerf /\ InitFn /\ InitCtx
    /\ storage \in {Stringify(l) : l \in SkillLogs} \cup ForeignValues

TopicsNext == \E f \in {"", "reading"} : CalcPerformance(f)
SkillsNext == \E f \in {"", "grammar", "listening"} : CalcPerformance(f)

\* ------------------------------------------------------------------------
\* Specifications
\* ------------------------------------------------------------------------
Init == InitGen /\ InitSeq /\ InitStore /\ InitPair /\ InitPerf /\ InitFn

\* One batch call.
Next == SeqNext
Spec == Init /\ [][Next]_vars

\* The two batch policies, one after the other.
SpecPair == Init /\ [][PairNext]_vars

\* getPerformanceTrend on score lists.
SpecTrend == InitTrend /\ [][TrendNext]_vars

\* getDifficultyAdjustment of both files on performance summaries.
SpecAdjust == InitAdjust /\ [][AdjustNext]_vars

\* getNextLessonNumber on completed-id lists.
SpecNext == InitNext /\ [][NextNumberNext]_vars

\* The LessonList component, its props and its sequence calls.
SpecList == Init /\ [][ListNext]_vars

\* calculateUserPerformance on logs of scored questions.
SpecTopics == InitTopics /\ [][TopicsNext]_vars

\* calculateUserPerformance on logs of several skills.
SpecSkills == InitSkills /\ [][SkillsNext]_vars

\* generateLesson alone.
SpecGen == Init /\ [][GenNext]_vars

\* One context appending results one after the other.
LogNext ==
    \/ SaveRead(1, "reading", MaxResults)
    \/ SaveWrite(1)
SpecLog == Init /\ [][LogNext]_vars

\* Two contexts sharing the storage key.
SharedNext ==
    \/ \E c \in Contexts, sk \in Skills : SaveRead(c, sk, MaxSharedResults)
    \/ \E c \in Contexts : SaveWrite(c)
SpecShared == Init /\ [][SharedNext]_vars

\* One context, its reads and appends, and foreign values under the key.
StoreNext ==
    \/ \E sk \in Skills : SaveRead(1, sk, MaxStoreResults)
    \/ SaveWrite(1)
    \/ CalcRead(1)
    \/ \E v \in ForeignValues : ExternalWrite(v)
SpecStore == Init /\ [][StoreNext]_vars

\* One context appending, and values it cannot parse put under the key
\* between two appends.
SaveNext ==
    \/ \E sk \in Skills : SaveRead(1, sk, MaxStoreResults)
    \/ SaveWrite(1)
    \/ \E v \in ForeignValues : CorruptWrite(v)
SpecSave == Init /\ [][SaveNext]_vars

\* ------------------------------------------------------------------------
\* Properties of the batch calls (specification Spec)
\* ------------------------------------------------------------------------
\* The lesson numbers requested so far, in request order.
Calls == LET cs == SelectSeq(trace, LAMBDA e : e.ev = "call")
         IN [j \in 1..Len(cs) |-> cs[j].arg]
InFlight(n) == \E j \in 1..Len(inflight) : inflight[j] = n
\* What the model API answers for lesson number n makes generateLesson fail.
Fails(n) == ~generateLesson(VariantOf(mode), skill, level, n, oracle[n], 0).ok
\* Positions of the requests that have settled with a failure.
SettledFailures == {j \in 1..Len(Calls) : ~InFlight(Calls[j]) /\ Fails(Calls[j])}
LessonNumbersOf(ls) == [j \in 1..Len(ls) |-> ls[j].id.lessonNumber]
IsPrefix(a, b) == Len(a) <= Len(b) /\ a = SubSeq(b, 1, Len(a))

\* C1: in strict mode the first per-lesson failure aborts the call: the call
\* throws generateLesson's error, returns no lesson, and the failing request
\* is the last one issued; the call throws only on such a failure.
C1_StrictAbortsOnFirstFailure ==
    (mode = "strict" /\ seqPc # "idle") =>
        /\ IsPrefix(Calls, CallNumbers("strict", startIndex, count))
        /\ (SettledFailures # {} =>
               /\ seqPc = "thrown"
               /\ seqResult = [ok |-> FALSE, error |-> GenericError,
                               lessons |-> <<>>]
               /\ SettledFailures = {Len(Calls)})
        /\ (seqPc = "thrown" => SettledFailures # {})
        /\ (seqPc = "returned" =>
               /\ seqResult.ok
               /\ LessonNumbersOf(seqResult.lessons)
                      = CallNumbers("strict", startIndex, count))

\* A strict call of three lessons that failed on the second one.
C1_Witness ==
    /\ mode = "strict" /\ seqPc = "thrown" /\ count = 3
    /\ Len(lessons) = 1 /\ Len(Calls) = 2
    /\ seqResult.lessons = <<>>

\* The indices of a best-effort call that succeed, in index order.
Succeeding(c) == SelectSeq([j \in 1..c |-> j], LAMBDA n : ~Fails(n))

C3_OneRequestInFlight ==
    /\ Len(inflight) <= 1
    /\ (seqPc # "awaitGen" => inflight = <<>>)
    /\ \A j \in 1..Len(Calls) : InFlight(Calls[j]) => j = Len(Calls)

\* The second request of a call is in flight, the first has settled.
C3_Witness == Len(Calls) = 2 /\ inflight = <<Calls[2]>>

\* Number of delays between the j-th and the (j+1)-th request of the trace.
CallPositions == {p \in 1..Len(trace) : trace[p].ev = "call"}
DelaysAfterCall(p) ==
    LET later == {q \in CallPositions : q > p}
        stop == IF later = {} THEN Len(trace) + 1 ELSE Min(later)
    IN stop - p - 1

\* C4 as stated: when a call has attempted all its items, exactly one pacing
\* delay lies between every two consecutive requests, none after the last.
C4_PacingBetweenCalls ==
    (seqPc = "returned" /\ count >= 1) =>
        /\ \A p \in CallPositions :
               DelaysAfterCall(p) = IF p = Max(CallPositions) THEN 0 ELSE 1
        /\ Len(trace) - Len(Calls) = count - 1

\* ------------------------------------------------------------------------
\* Properties of the performance log
\* ------------------------------------------------------------------------
LastN(sq, n) == IF Len(sq) > n THEN SubSeq(sq, Len(sq) - n + 1, Len(sq)) ELSE sq
StoredResults == getPerformanceData(storage).value
Holds(r) == \E j \in 1..Len(StoredResults) : StoredResults[j] = r

\* C5 (specification SpecLog): after any sequence of appends the persisted
\* log holds at most 100 entries, which are the most recent min(n, 100)
\* appended results in append order, oldest first.
C5_LogKeepsNewestHundred ==
    /\ Len(StoredResults) <= MaxLogEntries
    /\ StoredResults = LastN(appended, MaxLogEntries)
    /\ (appended # <<>> => storage = Stringify(LastN(appended, MaxLogEntries)))

\* More than 100 results were appended; the log starts at the second one.
C5_Witness ==
    /\ Len(appended) = MaxLogEntries + 1
    /\ Len(StoredResults) = MaxLogEntries
    /\ StoredResults[1].lessonId = 2
    /\ StoredResults[MaxLogEntries].lessonId = MaxLogEntries + 1

\* C6 (specification SpecShared) as stated: once no append is under way,
\* every result whose append completed is in the log.
C6_NoAppendLost ==
    (\A c \in Contexts : ctxPc[c] = "idle") =>
        \A j \in 1..Len(appended) : Holds(appended[j])

\* The stored values a read cannot turn into a log.
Unreadable(st) == st.kind \in {"absent", "empty", "garbage", "nonArray",
                               "badElement"}

\* C7 (specification SpecStore): reading the log never fails: an absent or
\* unparseable value reads as the empty log, no reader or appender fails,
\* and the read leaves the stored value as it was.
C7_ReadNeverFails ==
    /\ [](/\ ~readResult.threw
          /\ \A c \in Contexts : ctxPc[c] # "failed"
          /\ (Unreadable(readResult.of) => readResult.value = <<>>)
          /\ (ctxPc[1] = "saving" => Len(existing[1]) >= 1))
    /\ [][CalcRead(1) => (storage' = storage /\ readResult'.of = storage)]_vars

\* An unparseable value was read as the empty log and is still stored.
C7_Witness ==
    /\ readResult.of = Stored("garbage")
    /\ readResult.value = <<>>
    /\ ~readResult.threw
    /\ storage = Stored("garbage")
    /\ ctxPc[1] = "idle"

\* ------------------------------------------------------------------------
\* Properties of generateLesson (specification SpecGen)
\* ------------------------------------------------------------------------
GenDone == genPc \in {"returned", "thrown"}
HasBraceSpan(t) == \E p, q \in 1..Len(t) : p < q /\ t[p] = "{" /\ t[q] = "}"
\* The three failure kinds, read off the response.
TransportFailure == genResponse.net = "error"
NoObjectLiteral ==
    genResponse.net = "ok" /\ genResponse.body = "text"
    /\ ~HasBraceSpan(genResponse.text)
UnparseablePayload ==
    /\ genResponse.net = "ok"
    /\ \/ genResponse.body = "notJson"
       \/ /\ genResponse.body = "text"
          /\ HasBraceSpan(genResponse.text)
          /\ ~JsonParse(RegexMatch(genResponse.text).str).ok

\* C8: a generateLesson call issues exactly one request, and it either
\* returns one lesson or throws the generic error, whatever the failure kind.
C8_OneRequestOneGenericError ==
    /\ genFetches <= 1
    /\ (GenDone => genFetches = 1)
    /\ (genPc = "returned" =>
           genResult.ok /\ Len(genResult.lesson) = 1 /\ genResult.error = "none")
    /\ (genPc = "thrown" =>
           ~genResult.ok /\ genResult.lesson = <<>>
           /\ genResult.error = GenericError)
    /\ (GenDone /\ (TransportFailure \/ NoObjectLiteral \/ UnparseablePayload)
           => genPc = "thrown")

\* A call that failed on a payload with braces that does not parse.
C8_Witness ==
    /\ genPc = "thrown" /\ genFetches = 1
    /\ UnparseablePayload /\ genResponse.body = "text"
    /\ genResult.error = GenericError

\* response.ok: a status in the range 200-299.
IsSuccessStatus(st) == st >= 200 /\ st <= 299

\* C9 as stated: a response with a non-success status never yields a lesson.
C9_NonSuccessStatusFails ==
    (GenDone /\ genResponse.net = "ok" /\ ~IsSuccessStatus(genResponse.status))
        => genPc = "thrown"

IsProse(t) == \A p \in 1..Len(t) : t[p] = "x"

\* C10 as stated: for a text made of prose, one valid object and any text
\* after it, the lesson is parsed from that object; a text without a
\* "{"..."}" span fails.
C10_FirstObjectExtracted ==
    (GenDone /\ genResponse.net = "ok" /\ genResponse.body = "text") =>
        LET t == genResponse.text
        IN /\ \A a \in 1..Len(t), b \in 1..Len(t) :
                  (/\ a <= b
                   /\ IsProse(SubSeq(t, 1, a - 1))
                   /\ JsonParse(SubSeq(t, a, b)).ok)
                  => /\ genPc = "returned"
                     /\ genResult.lesson[1].data = JsonParse(SubSeq(t, a, b)).value
           /\ (~HasBraceSpan(t) => genPc = "thrown")

\* ------------------------------------------------------------------------
\* The two policies compared (specification SpecPair)
\* ------------------------------------------------------------------------
CallsOf(tr) == LET cs == SelectSeq(tr, LAMBDA e : e.ev = "call")
               IN [j \in 1..Len(cs) |-> cs[j].arg]
\* Both calls have returned and no per-item call failed in either of them.
BothReturnedNoFailure ==
    /\ runs = 2 /\ seqPc = "returned"
    /\ prev.result.ok /\ seqResult.ok
    /\ \A n \in DOMAIN oracle : \A m \in Modes :
           generateLesson(VariantOf(m), skill, level, n, oracle[n], 0).ok
\* Same requests, and lesson by lesson the same fields, lesson identity,
\* parsed data and points (the id's timestamp suffix apart).
SamePerItemOutput ==
    /\ CallsOf(prev.trace) = Calls
    /\ Len(prev.result.lessons) = count /\ Len(seqResult.lessons) = count
    /\ \A j \in 1..Len(seqResult.lessons) :
           LET a == prev.result.lessons[j]
               b == seqResult.lessons[j]
           IN /\ DOMAIN a = DOMAIN b
              /\ a.id.skill = b.id.skill /\ a.id.level = b.id.level
              /\ a.id.lessonNumber = b.id.lessonNumber
              /\ a.data = b.data
              /\ a.points = b.points

Computed(f) == perfOut[f] # <<>>
\* The answered questions of the stored results the filter f selects, as
\* (result, question) positions.
Observations(f) ==
    UNION {{<<a, b>> : b \in 1..Len(StoredResults[a].questionResults)} :
              a \in {a \in 1..Len(StoredResults) :
                        f = "" \/ StoredResults[a].skill = f}}
ObservedTopic(o) ==
    LET q == StoredResults[o[1]].questionResults[o[2]]
    IN IF q.topic = <<>> THEN q.type ELSE q.topic[1]
ObservedTopics(f) == {ObservedTopic(o) : o \in Observations(f)}
TotalOf(f, tp) == Cardinality({o \in Observations(f) : ObservedTopic(o) = tp})
CorrectOf(f, tp) ==
    Cardinality({o \in Observations(f) :
                    /\ ObservedTopic(o) = tp
                    /\ StoredResults[o[1]].questionResults[o[2]].correct})
\* correct/total * 100 of topic a is below that of topic b.
ScoreBelow(f, a, b) ==
    CorrectOf(f, a) * TotalOf(f, b) < CorrectOf(f, b) * TotalOf(f, a)
WeakTopics(f) ==
    {tp \in ObservedTopics(f) : CorrectOf(f, tp) * 100 < 70 * TotalOf(f, tp)}
StrongTopics(f) ==
    {tp \in ObservedTopics(f) : CorrectOf(f, tp) * 100 >= 85 * TotalOf(f, tp)}
Elements(sq) == {sq[j] : j \in 1..Len(sq)}
AtMostThree(n) == IF n < 3 THEN n ELSE 3

\* C12 (specification SpecSkills): averageScore lies in [0, 100] and no topic
\* is both a weak and a strong area, for every stored log and every filter.
C12_AverageInRangeAreasDisjoint ==
    \A f \in PerfFilters : Computed(f) =>
        LET u == perfOut[f][1]
        IN /\ u.averageScore.den > 0
           /\ u.averageScore.num >= 0
           /\ u.averageScore.num <= 100 * u.averageScore.den
           /\ Elements(u.weakAreas) \cap Elements(u.strongAreas) = {}

TrendInput == performance[1].recentScores
\* The last 3 values and the up to 3 values before them.
LastThree(xs) == SubSeq(xs, Len(xs) - 2, Len(xs))
PriorThree(xs) == SubSeq(xs, IF Len(xs) > 6 THEN Len(xs) - 5 ELSE 1, Len(xs) - 3)
\* mean(recent) - mean(prior) > 10, in integers.
RecentExceedsBy10(xs) ==
    SumOf(LastThree(xs)) * Len(PriorThree(xs))
        > SumOf(PriorThree(xs)) * 3 + 30 * Len(PriorThree(xs))
RecentBelowBy10(xs) ==
    SumOf(LastThree(xs)) * Len(PriorThree(xs))
        < SumOf(PriorThree(xs)) * 3 - 30 * Len(PriorThree(xs))
DiffersByExactly10(xs) ==
    \/ SumOf(LastThree(xs)) * Len(PriorThree(xs))
           = SumOf(PriorThree(xs)) * 3 + 30 * Len(PriorThree(xs))
    \/ SumOf(LastThree(xs)) * Len(PriorThree(xs))
           = SumOf(PriorThree(xs)) * 3 - 30 * Len(PriorThree(xs))

\* C14 (specification SpecTrend): the trend is "improving" iff the mean of the
\* last 3 values exceeds the mean of the values before them by more than 10,
\* "declining" iff it is lower by more than 10, otherwise "stable"; lists of
\* fewer than 3 values or without a prior window are "stable".
C14_TrendByMeans ==
    trend # <<>> =>
        IF Len(TrendInput) <= 3 THEN trend[1] = "stable"
        ELSE /\ trend[1] = "improving" <=> RecentExceedsBy10(TrendInput)
             /\ trend[1] = "declining" <=> RecentBelowBy10(TrendInput)
             /\ trend[1] \in {"improving", "declining", "stable"}

\* Away from a difference of exactly 10 the label follows the means.
C14_TrendAwayFromMargin ==
    (trend # <<>> /\ Len(TrendInput) > 3 /\ ~DiffersByExactly10(TrendInput)) =>
        /\ trend[1] = "improving" <=> RecentExceedsBy10(TrendInput)
        /\ trend[1] = "declining" <=> RecentBelowBy10(TrendInput)

\* ------------------------------------------------------------------------
\* Properties of getDifficultyAdjustment (SpecAdjust)
\* ------------------------------------------------------------------------
\* What an instruction tells the generator to do.
Meaning(text) ==
    CASE text \in {IncreaseText, "increase difficulty"} -> "increase"
      [] text \in {DecreaseText, "decrease difficulty"} -> "decrease"
      [] text \in {MaintainText, "maintain current difficulty"} -> "variation"
      [] OTHER -> "standard"
\* The rules in the stated order, first match wins.
RuleFor(perf) ==
    IF perf = <<>> \/ perf[1].completedLessons = 0 THEN "standard"
    ELSE LET label == getPerformanceTrend(perf[1].recentScores)
         IN IF perf[1].averageScore >= 85 /\ label = "improving" THEN "increase"
            ELSE IF perf[1].averageScore <= 60 \/ label = "declining"
                 THEN "decrease"
                 ELSE IF perf[1].averageScore >= 75 THEN "variation"
                      ELSE "standard"

\* C15 (specification SpecAdjust): the adapter answers by the first matching
\* rule: no performance or no completed lesson -> default; average >= 85 and
\* improving -> increase; average <= 60 or declining -> decrease; average
\* >= 75 -> mild variation; else standard.
C15_RulesInOrder ==
    \A v \in Variants :
        adjustment[v] # <<>> => Meaning(adjustment[v][1]) = RuleFor(performance)

\* The adapter of contentGenerator.ts alone follows the rules.
C15_CurrentAdapterInOrder ==
    adjustment["contentGenerator"] # <<>> =>
        Meaning(adjustment["contentGenerator"][1]) = RuleFor(performance)

\* ------------------------------------------------------------------------
\* Properties of getNextLessonNumber (SpecNext)
\* ------------------------------------------------------------------------
CompletedOf(sk) == user[sk].completed
\* The positions of the completed list of sk whose id is of skill sk and
\* level lv.
OwnIds(sk, lv) ==
    {j \in 1..Len(CompletedOf(sk)) :
        CompletedOf(sk)[j][1] = sk /\ CompletedOf(sk)[j][3] = lv}
\* The positions whose id contains sk-lv.
ContainingIds(sk, lv) ==
    {j \in 1..Len(CompletedOf(sk)) :
        \E h \in 1..(Len(CompletedOf(sk)[j]) - 2) :
            /\ CompletedOf(sk)[j][h] = sk
            /\ CompletedOf(sk)[j][h + 1] = "-"
            /\ CompletedOf(sk)[j][h + 2] = lv}

\* C16 (specification SpecNext): the next lesson number is the number of
\* completed ids of the skill's list that contain skill-level, plus one; ids
\* of other skills or levels do not count and the empty list gives 1.
C16_NextLessonNumber ==
    nextNumber # <<>> =>
        LET sk == nextNumber[1].skill
            lv == nextNumber[1].level
        IN /\ nextNumber[1].value = Cardinality(ContainingIds(sk, lv)) + 1
           /\ nextNumber[1].value = Cardinality(OwnIds(sk, lv)) + 1
           /\ (CompletedOf(sk) = <<>> => nextNumber[1].value = 1)

\* The list reading-beginner-1, reading-beginner-2, grammar-beginner-1 of
\* reading gives 3 for (reading, beginner).
C16_Witness ==
    /\ nextNumber # <<>>
    /\ nextNumber[1].skill = "reading" /\ nextNumber[1].level = "beginner"
    /\ user["reading"].completed =
           <<IdOf("reading", "beginner", "1"), IdOf("reading", "beginner", "2"),
             IdOf("grammar", "beginner", "1")>>
    /\ nextNumber[1].value = 3

\* ------------------------------------------------------------------------
\* Properties of the summary's empty case and skill breakdown (SpecSkills)
\* ------------------------------------------------------------------------
\* The stored results the filter f selects ("" selects all).
Selected(f) == {j \in 1..Len(StoredResults) : f = "" \/ StoredResults[j].skill = f}
ListedSkills ==
    {"listening", "reading", "speaking", "writing", "grammar", "vocabulary"}
ResultsOfSkill(sk) == {j \in 1..Len(StoredResults) : StoredResults[j].skill = sk}
SkillsWithResults == {sk \in ListedSkills : ResultsOfSkill(sk) # {}}
\* m is the breakdown of the whole stored log.
IsBreakdownOfLog(m) ==
    /\ DOMAIN m = SkillsWithResults
    /\ \A sk \in SkillsWithResults :
           /\ m[sk].completedLessons = Cardinality(ResultsOfSkill(sk))
           /\ \E j \in ResultsOfSkill(sk) :
                  m[sk].lastLessonDate = StoredResults[j].completedAt
           /\ \A j \in ResultsOfSkill(sk) :
                  m[sk].lastLessonDate.date >= StoredResults[j].completedAt.date

\* C17 (specification SpecSkills): when the log is empty or unreadable, or
\* the filter selects no result, the summary is the zero summary: 0 completed
\* lessons, average 0, no weak or strong areas, no recent scores, empty skill
\* map.
C17_ZeroSummary ==
    \A f \in PerfFilters :
        (Computed(f) /\ Selected(f) = {}) =>
            /\ perfOut[f][1].completedLessons = 0
            /\ perfOut[f][1].averageScore.num = 0
            /\ perfOut[f][1].averageScore.den = 1
            /\ perfOut[f][1].weakAreas = <<>>
            /\ perfOut[f][1].strongAreas = <<>>
            /\ perfOut[f][1].recentScores = <<>>
            /\ DOMAIN perfOut[f][1].skillPerformance = {}

\* The zero summary for a filter that selects nothing of a log of two
\* results, and for an unfiltered call.
C17_Witness ==
    /\ Computed("listening") /\ Computed("")
    /\ Len(StoredResults) = 2
    /\ Selected("listening") = {}
    /\ perfOut["listening"][1].completedLessons = 0
    /\ perfOut[""][1].completedLessons = 2

\* C18 (amended): for every filter that selects at least one result
\* (including no filter) the skill breakdown is that of the whole log: its
\* keys are the listed skills with at least one result, each with its number
\* of results and its latest completion time; a filter that selects no
\* result gets an empty breakdown.
C18_BreakdownOverWholeLog ==
    \A f \in PerfFilters : Computed(f) =>
        IF Selected(f) = {}
        THEN DOMAIN perfOut[f][1].skillPerformance = {}
        ELSE /\ IsBreakdownOfLog(perfOut[f][1].skillPerformance)
             /\ \A g \in PerfFilters :
                    (Computed(g) /\ Selected(g) # {}) =>
                        perfOut[g][1].skillPerformance
                            = perfOut[f][1].skillPerformance

\* Two grammar results, the later one stored first, next to none of the
\* listed skills: with and without the grammar filter the breakdown has the
\* one key grammar, 2 lessons, the later time.
C18_Witness ==
    /\ Computed("") /\ Computed("grammar")
    /\ Len(StoredResults) = 2
    /\ StoredResults[1].skill = "grammar" /\ StoredResults[2].skill = "grammar"
    /\ StoredResults[1].completedAt.date = 2
    /\ StoredResults[2].completedAt.date = 1
    /\ perfOut[""][1].skillPerformance = perfOut["grammar"][1].skillPerformance
    /\ DOMAIN perfOut["grammar"][1].skillPerformance = {"grammar"}
    /\ perfOut["grammar"][1].skillPerformance["grammar"].completedLessons = 2
    /\ perfOut["grammar"][1].skillPerformance["grammar"].lastLessonDate.date = 2

\* C18 as stated: for every filter.
C18_Original ==
    \A f \in PerfFilters : Computed(f) =>
        /\ IsBreakdownOfLog(perfOut[f][1].skillPerformance)
        /\ \A g \in PerfFilters :
               Computed(g) =>
                   perfOut[g][1].skillPerformance
                       = perfOut[f][1].skillPerformance

\* ------------------------------------------------------------------------
\* Properties of the LessonList component (SpecList)
\* ------------------------------------------------------------------------
PendingLoads == {c \in pendingCalls : c.kind = "load"}
Settled == callCount > 0 /\ pendingCalls = {}

\* C19 (specification SpecList): no second loadLessons call is issued while
\* one is in flight, and once every call has settled the list shown (when no
\* error is shown) holds lessons of the current skill and level only.
C19_LatestLoadWins ==
    /\ Cardinality(PendingLoads) <= 1
    /\ (Settled /\ error = <<>>) =>
           \A j \in 1..Len(listLessons) :
               /\ listLessons[j].skill = listSkill
               /\ listLessons[j].level = listLevel

\* With one skill and level throughout and no second load the property
\* holds: the displayed lessons are the current props' lessons.
C19_ShownWithoutPropsChange ==
    (Settled /\ error = <<>> /\ callCount = 1) =>
        \A j \in 1..Len(listLessons) :
            /\ listLessons[j].skill = listSkill
            /\ listLessons[j].level = listLevel

\* ------------------------------------------------------------------------
\* Properties of savePerformanceData over an unreadable value (SpecSave)
\* ------------------------------------------------------------------------
PresentUnreadable(st) == st.kind \in {"garbage", "nonArray", "badElement"}
SaveReadStep == \E sk \in Skills : SaveRead(1, sk, MaxStoreResults)

\* C20 (specification SpecSave): savePerformanceData never fails; over a
\* present but unreadable value it writes a log of exactly the one new
\* result; otherwise it writes the stored results followed by the new one,
\* less the oldest beyond 100.
C20_SaveOverUnreadable ==
    /\ [](\A c \in Contexts : ctxPc[c] # "failed")
    /\ [][SaveReadStep =>
            /\ Len(pending'[1]) = 1
            /\ (PresentUnreadable(storage) => existing'[1] = pending'[1])
            /\ (~PresentUnreadable(storage) =>
                   existing'[1] = LastN(StoredResults \o pending'[1],
                                        MaxLogEntries))]_vars
    /\ [][SaveWrite(1) =>
            /\ storage' = Stringify(existing[1])
            /\ getPerformanceData(storage').value = existing[1]]_vars

\* Two results were appended, an unparseable value came in between: the log
\* holds the second result only.
C20_Witness ==
    /\ ctxPc[1] = "idle"
    /\ Len(appended) = 2
    /\ storage = Stringify(<<appended[2]>>)

====
